---- MODULE Spec2Model ----
(***************************************************************************)
(* State-machine model of backend--project/server.js: an Express service   *)
(* over SQLite with signup, login, JWT-authenticated recipe routes and an  *)
(* upload sink.  Each request handler is one action; POST /signup is two   *)
(* (the handler awaits bcrypt.hash before it issues the INSERT, so other   *)
(* requests interleave between the two halves).                            *)
(***************************************************************************)
EXTENDS Integers, Sequences, FiniteSets, TLC

(***************************************************************************)
(* JSON / JavaScript / SQL values.  Every value is tagged with its type so *)
(* that a missing property (undefined), SQL NULL, a string (a sequence of  *)
(* characters, so that its length is visible) and a number stay distinct.  *)
(***************************************************************************)
Undefined == <<"undefined">>
Null == <<"null">>
Str(s) == <<"string", s>>
Num(n) == <<"number", n>>
IsStr(v) == v[1] = "string"

\* ---- bounds of the exploration ----
MaxUsers == 2
MaxRecipes == 2
MaxInFlight == 2
MaxUploads == 1

\* ---- program constants ----
\* body("password").isLength({ min: 6 })
MinPasswordLen == 6
\* jwt.sign(..., { expiresIn: "1h" }): the lifetime in seconds
TokenLifetime == 3600
\* bcrypt.hash(password, 10): the cost factor
BcryptRounds == 10

JwtSecret == "your_jwt_secret_key"
OtherSecret == "some_other_key"

(***************************************************************************)
(* express-validator chains.  A validator sees the field's string form: a  *)
(* missing or null field is the empty string.                              *)
(***************************************************************************)
FieldString(v) == IF IsStr(v) THEN v[2] ELSE <<>>

NotEmpty(v) == IF v[1] = "number" THEN TRUE ELSE Len(FieldString(v)) > 0

IsLengthMin(v, min) == Len(FieldString(v)) >= min

\* isEmail: exactly one "@", a non-empty local part, and a domain that holds
\* a "." with something on both sides of it (require_tld).
IsEmail(v) ==
    LET s == FieldString(v)
        ats == {i \in 1..Len(s) : s[i] = "@"}
    IN  /\ Cardinality(ats) = 1
        /\ LET a == CHOOSE i \in ats : TRUE
           IN  /\ a > 1
               /\ \E d \in (a + 2)..(Len(s) - 1) : s[d] = "."

\* a variant that stops at the first failing chain
ErrorsOfBail(checks) ==
    LET all == SelectSeq(checks, LAMBDA c : ~c[2])
    IN  IF all = <<>> THEN all ELSE <<all[1]>>

\* validationResult(req).array(): one entry per failing chain, in chain order
ErrorsOf(checks) == SelectSeq(checks, LAMBDA c : ~c[2])

ErrorFields(errs) == {errs[i][1] : i \in 1..Len(errs)}

SignupErrors(b) ==
    ErrorsOf(<< <<"name", NotEmpty(b.name)>>,
                <<"email", IsEmail(b.email)>>,
                <<"password", IsLengthMin(b.password, MinPasswordLen)>> >>)

LoginErrors(b) ==
    ErrorsOf(<< <<"email", IsEmail(b.email)>>,
                <<"password", NotEmpty(b.password)>> >>)

RecipeErrors(b) ==
    ErrorsOf(<< <<"title", NotEmpty(b.title)>>,
                <<"description", NotEmpty(b.description)>>,
                <<"ingredients", NotEmpty(b.ingredients)>>,
                <<"instructions", NotEmpty(b.instructions)>> >>)

(***************************************************************************)
(* bcrypt.  The stored hash carries the cost and the random salt; compare  *)
(* re-hashes the candidate with the salt found in the stored hash.         *)
(***************************************************************************)
BcryptHash(password, salt) == <<"bcrypt", BcryptRounds, salt, FieldString(password)>>

\* a variant that hashes the candidate with a salt of its own
BcryptCompareFreshSalt(password, hash) == BcryptHash(password, "salt1") = hash

BcryptCompare(password, hash) == BcryptHash(password, hash[3]) = hash

(***************************************************************************)
(* jsonwebtoken.  sign stamps iat = floor(Date.now()/1000) and             *)
(* exp = iat + lifetime; verify checks the signing key and rejects once    *)
(* floor(Date.now()/1000) >= exp.  The clock `now` is in milliseconds.     *)
(***************************************************************************)
Seconds(t) == t \div 1000

JwtSign(payloadId, key, t) ==
    <<"jwt", [id |-> payloadId, iat |-> Seconds(t), exp |-> Seconds(t) + TokenLifetime], key>>

generateToken(userId, t) == JwtSign(userId, JwtSecret, t)

\* a variant that still accepts the token in the second it expires
JwtVerifyInclusive(token, key, t) == token[3] = key /\ Seconds(t) <= token[2].exp

JwtVerify(token, key, t) == token[3] = key /\ Seconds(t) < token[2].exp

\* the Authorization header: absent, or "Bearer " followed by a token (or by nothing)
EmptyToken == <<"">>
Bearer(token) == <<"Bearer", token>>

\* req.header("Authorization")?.replace("Bearer ", "")
ExtractToken(header) == IF header = Undefined THEN Undefined ELSE header[2]

AccessDenied == [error |-> "Access denied. No token provided."]
InvalidToken == [error |-> "Invalid token."]

\* a variant that decodes the token without verifying it
authenticateDecodeOnly(header, t) ==
    LET token == ExtractToken(header)
    IN  IF token = Undefined \/ token = EmptyToken
        THEN [ok |-> FALSE, status |-> 401, body |-> AccessDenied, userId |-> 0]
        ELSE [ok |-> TRUE, status |-> 0, body |-> Null, userId |-> token[2].id]

\* authenticateToken: the middleware's verdict on a request's header at time t
authenticateToken(header, t) ==
    LET token == ExtractToken(header)
    IN  IF token = Undefined \/ token = EmptyToken
        THEN [ok |-> FALSE, status |-> 401, body |-> AccessDenied, userId |-> 0]
        ELSE IF ~JwtVerify(token, JwtSecret, t)
        THEN [ok |-> FALSE, status |-> 400, body |-> InvalidToken, userId |-> 0]
        ELSE [ok |-> TRUE, status |-> 0, body |-> Null, userId |-> token[2].id]

(***************************************************************************)
(* State.                                                                  *)
(*   users, recipes : the two tables the handlers touch, in rowid order    *)
(*   inflight       : signups that passed validation and hashing and whose *)
(*                    INSERT has not run yet                               *)
(*   uploads        : file names in the uploads directory                  *)
(*   now            : Date.now(), in milliseconds                          *)
(*   resp           : the request just handled and the response to it      *)
(*   accounts, held : what the clients know: the credentials each          *)
(*                    successful signup used, and the token each user got  *)
(*                    last, with the instant it was issued                 *)
(*   created        : for each recipe, the body of the POST that created   *)
(*                    it, who posted it and when, and whether a PUT has    *)
(*                    overwritten it since                                 *)
(***************************************************************************)
VARIABLES users, recipes, inflight, uploads, now, resp, accounts, held, created

vars == <<users, recipes, inflight, uploads, now, resp, accounts, held, created>>

NoResp == [op |-> "none", status |-> 0]

Init ==
    /\ users = <<>>
    /\ recipes = <<>>
    /\ inflight = {}
    /\ uploads = {}
    /\ now = 0
    /\ resp = NoResp
    /\ accounts = <<>>
    /\ held = <<>>
    /\ created = <<>>

\* INTEGER PRIMARY KEY AUTOINCREMENT: one more than the largest rowid ever used
\* (no handler deletes, so that is the largest rowid in the table)
LastId(table) ==
    IF Len(table) = 0 THEN 0
    ELSE CHOOSE m \in {table[i].id : i \in 1..Len(table)} :
            \A i \in 1..Len(table) : table[i].id <= m

NextId(table) == LastId(table) + 1

\* SELECT * FROM users WHERE email = ?
UsersByEmail(email) == {i \in 1..Len(users) : users[i].email = email}

\* a variant without the UNIQUE constraint
EmailNeverTaken(email) == FALSE

\* the UNIQUE constraint on users.email
EmailTaken(email) == UsersByEmail(email) # {}

(***************************************************************************)
(* POST /signup, first half: validation, then bcrypt.hash.                 *)
(***************************************************************************)
SignupRequest(name, email, password, salt) ==
    LET body == [name |-> name, email |-> email, password |-> password]
        errors == SignupErrors(body)
    IN  IF errors # <<>>
        THEN /\ resp' = [op |-> "signup", req |-> body, status |-> 400,
                         body |-> [errors |-> errors]]
             /\ UNCHANGED <<users, recipes, inflight, uploads, now, accounts, held, created>>
        ELSE /\ Cardinality(inflight) < MaxInFlight
             /\ inflight' = inflight \cup
                    {[req |-> body, hashedPassword |-> BcryptHash(password, salt)]}
             /\ resp' = [op |-> "signup", req |-> body, status |-> 0]
             /\ UNCHANGED <<users, recipes, uploads, now, accounts, held, created>>

(***************************************************************************)
(* POST /signup, second half: the INSERT and its callback.                 *)
(***************************************************************************)
SignupInsert(p) ==
    /\ p \in inflight
    /\ inflight' = inflight \ {p}
    /\ IF EmailTaken(p.req.email)
       THEN /\ resp' = [op |-> "signup", req |-> p.req, status |-> 400,
                        body |-> [error |-> "Email already exists"]]
            /\ UNCHANGED <<users, recipes, uploads, now, accounts, held, created>>
       ELSE /\ Len(users) < MaxUsers
            /\ LET id == NextId(users)
                   token == JwtSign(id, JwtSecret, now)
               IN  /\ users' = Append(users, [id |-> id, name |-> p.req.name,
                                              email |-> p.req.email,
                                              password |-> p.hashedPassword])
                   /\ resp' = [op |-> "signup", req |-> p.req, status |-> 201,
                               body |-> [id |-> id, name |-> p.req.name,
                                         email |-> p.req.email, token |-> token]]
                   /\ accounts' = Append(accounts, [id |-> id, email |-> p.req.email,
                                                    password |-> p.req.password])
                   /\ held' = Append(held, [token |-> token, at |-> now])
            /\ UNCHANGED <<recipes, uploads, now, created>>

(***************************************************************************)
(* POST /login.                                                            *)
(***************************************************************************)
Login(email, password) ==
    LET body == [email |-> email, password |-> password]
        errors == LoginErrors(body)
        found == UsersByEmail(email)
    IN  IF errors # <<>>
        THEN /\ resp' = [op |-> "login", req |-> body, status |-> 400,
                         body |-> [errors |-> errors]]
             /\ UNCHANGED <<users, recipes, inflight, uploads, now, accounts, held, created>>
        ELSE IF found = {}
        THEN /\ resp' = [op |-> "login", req |-> body, status |-> 404,
                         body |-> [error |-> "User not found"]]
             /\ UNCHANGED <<users, recipes, inflight, uploads, now, accounts, held, created>>
        ELSE LET user == users[CHOOSE i \in found : TRUE]
             IN  IF ~BcryptCompare(password, user.password)
                 THEN /\ resp' = [op |-> "login", req |-> body, status |-> 401,
                                  body |-> [error |-> "Invalid credentials"]]
                      /\ UNCHANGED <<users, recipes, inflight, uploads, now, accounts,
                                     held, created>>
                 ELSE LET token == generateToken(user.id, now)
                      IN  /\ resp' = [op |-> "login", req |-> body, status |-> 200,
                                      body |-> [token |-> token]]
                          /\ held' = [held EXCEPT ![user.id] = [token |-> token, at |-> now]]
                          /\ UNCHANGED <<users, recipes, inflight, uploads, now, accounts,
                                         created>>

(***************************************************************************)
(* POST /upload: multer stores the file as Date.now() + its extension.     *)
(***************************************************************************)
Upload(file) ==
    IF file = Undefined
    THEN /\ resp' = [op |-> "upload", req |-> file, status |-> 400,
                     body |-> [error |-> "No file uploaded"]]
         /\ UNCHANGED <<users, recipes, inflight, uploads, now, accounts, held, created>>
    ELSE /\ Cardinality(uploads \cup {<<now, file[2]>>}) <= MaxUploads
         /\ uploads' = uploads \cup {<<now, file[2]>>}
         /\ resp' = [op |-> "upload", req |-> file, status |-> 200,
                     body |-> [imageUrl |-> <<"http://localhost:5000/uploads/", now, file[2]>>]]
         /\ UNCHANGED <<users, recipes, inflight, now, accounts, held, created>>

(***************************************************************************)
(* The credential a request carries: no Authorization header, "Bearer "    *)
(* with nothing after it, a token signed with another key in the name of   *)
(* user c[2], or the token user c[2] holds.                                *)
(***************************************************************************)
HeaderOf(c) ==
    CASE c[1] = "none" -> Undefined
      [] c[1] = "empty" -> Bearer(EmptyToken)
      [] c[1] = "forged" -> Bearer(JwtSign(c[2], OtherSecret, now))
      [] c[1] = "held" -> Bearer(held[c[2]].token)

Credentials ==
    {<<"none">>, <<"empty">>} \cup {<<"forged", i>> : i \in 1..Len(users)}
        \cup {<<"held", i>> : i \in 1..Len(held)}

\* the response of a route whose middleware refused the request
Refused(op, req, auth) ==
    /\ resp' = [op |-> op, req |-> req, userId |-> 0, status |-> auth.status,
                body |-> auth.body]
    /\ UNCHANGED <<users, recipes, inflight, uploads, now, accounts, held, created>>

(***************************************************************************)
(* The recipes table.                                                      *)
(***************************************************************************)
\* node-sqlite3 leaves an undefined parameter unbound, and SQLite reads an
\* unbound parameter as NULL
Bind(v) == IF v = Undefined THEN Null ELSE v

\* title, description, ingredients, instructions are TEXT NOT NULL
NotNullOk(row) ==
    /\ row.title # Null
    /\ row.description # Null
    /\ row.ingredients # Null
    /\ row.instructions # Null

\* a variant without the WHERE clause
RecipesOfAnyUser(userId) == recipes

\* SELECT * FROM recipes WHERE userId = ?
RecipesOfUser(userId) == SelectSeq(recipes, LAMBDA r : r.userId = userId)

\* variants with half of the WHERE clause
MatchingRecipesAnyOwner(id, userId) == {i \in 1..Len(recipes) : recipes[i].id = id}

MatchingRecipesAnyId(id, userId) == {i \in 1..Len(recipes) : recipes[i].userId = userId}

\* ... WHERE id = ? AND userId = ?  (the positions of the matching rows)
MatchingRecipes(id, userId) ==
    {i \in 1..Len(recipes) : recipes[i].id = id /\ recipes[i].userId = userId}

\* a variant in the order of the UPDATE's parameters
InsertParamsUpdateOrder(body, userId) ==
    <<body.title, body.description, body.ingredients, body.instructions,
      body.categoryId, body.imageUrl, userId>>

\* the parameter array of the INSERT in POST /recipes
InsertParams(body, userId) ==
    <<body.title, body.description, body.ingredients, body.instructions,
      body.imageUrl, body.categoryId, userId>>

\* INSERT INTO recipes (title, description, ingredients, instructions, imageUrl,
\* categoryId, userId) VALUES (?, ?, ?, ?, ?, ?, ?), createdAt by default
InsertedRow(id, p, t) ==
    [id |-> id, title |-> Bind(p[1]), description |-> Bind(p[2]),
     ingredients |-> Bind(p[3]), instructions |-> Bind(p[4]),
     imageUrl |-> Bind(p[5]), categoryId |-> Bind(p[6]), userId |-> p[7],
     createdAt |-> Seconds(t)]

\* a variant in the order of the INSERT's parameters
UpdateParamsInsertOrder(body, id, userId) ==
    <<body.title, body.description, body.ingredients, body.instructions,
      body.imageUrl, body.categoryId, id, userId>>

\* the parameter array of the UPDATE in PUT /recipes/:id
UpdateParams(body, id, userId) ==
    <<body.title, body.description, body.ingredients, body.instructions,
      body.categoryId, body.imageUrl, id, userId>>

\* UPDATE recipes SET title = ?, description = ?, ingredients = ?,
\* instructions = ?, categoryId = ?, imageUrl = ? (applied to one row)
UpdatedRow(row, p) ==
    [row EXCEPT !.title = Bind(p[1]), !.description = Bind(p[2]),
                !.ingredients = Bind(p[3]), !.instructions = Bind(p[4]),
                !.categoryId = Bind(p[5]), !.imageUrl = Bind(p[6])]

(***************************************************************************)
(* GET /recipes.                                                           *)
(***************************************************************************)
ListRecipes(c) ==
    LET req == [cred |-> c]
        auth == authenticateToken(HeaderOf(c), now)
    IN  IF ~auth.ok THEN Refused("list", req, auth)
        ELSE /\ resp' = [op |-> "list", req |-> req, userId |-> auth.userId,
                         status |-> 200, body |-> RecipesOfUser(auth.userId)]
             /\ UNCHANGED <<users, recipes, inflight, uploads, now, accounts, held, created>>

(***************************************************************************)
(* GET /recipes/:id.                                                       *)
(***************************************************************************)
GetRecipe(c, id) ==
    LET req == [cred |-> c, id |-> id]
        auth == authenticateToken(HeaderOf(c), now)
        found == MatchingRecipes(id, auth.userId)
    IN  IF ~auth.ok THEN Refused("get", req, auth)
        ELSE /\ resp' = IF found = {}
                        THEN [op |-> "get", req |-> req, userId |-> auth.userId,
                              status |-> 404, body |-> [error |-> "Recipe not found"]]
                        ELSE [op |-> "get", req |-> req, userId |-> auth.userId,
                              status |-> 200, body |-> recipes[CHOOSE i \in found : TRUE]]
             /\ UNCHANGED <<users, recipes, inflight, uploads, now, accounts, held, created>>

(***************************************************************************)
(* POST /recipes: authenticateToken, then the validators, then the INSERT. *)
(***************************************************************************)
CreateRecipe(c, body) ==
    LET req == [cred |-> c, body |-> body]
        auth == authenticateToken(HeaderOf(c), now)
        errors == RecipeErrors(body)
        id == NextId(recipes)
        row == InsertedRow(id, InsertParams(body, auth.userId), now)
    IN  IF ~auth.ok THEN Refused("create", req, auth)
        ELSE IF errors # <<>>
        THEN /\ resp' = [op |-> "create", req |-> req, userId |-> auth.userId,
                         status |-> 400, body |-> [errors |-> errors]]
             /\ UNCHANGED <<users, recipes, inflight, uploads, now, accounts, held, created>>
        ELSE IF ~NotNullOk(row)
        THEN /\ resp' = [op |-> "create", req |-> req, userId |-> auth.userId,
                         status |-> 500, body |-> [error |-> "Failed to add recipe"]]
             /\ UNCHANGED <<users, recipes, inflight, uploads, now, accounts, held, created>>
        ELSE /\ Len(recipes) < MaxRecipes
             /\ recipes' = Append(recipes, row)
             /\ resp' = [op |-> "create", req |-> req, userId |-> auth.userId,
                         status |-> 201,
                         body |-> [id |-> id, title |-> body.title,
                                   description |-> body.description,
                                   ingredients |-> body.ingredients,
                                   instructions |-> body.instructions,
                                   imageUrl |-> body.imageUrl,
                                   categoryId |-> body.categoryId]]
             /\ created' = Append(created, [id |-> id, by |-> auth.userId, body |-> body,
                                            at |-> now, overwritten |-> FALSE])
             /\ UNCHANGED <<users, inflight, uploads, now, accounts, held>>

(***************************************************************************)
(* PUT /recipes/:id: authenticateToken, then the UPDATE (no validators).   *)
(***************************************************************************)
UpdateRecipe(c, id, body) ==
    LET req == [cred |-> c, id |-> id, body |-> body]
        auth == authenticateToken(HeaderOf(c), now)
        p == UpdateParams(body, id, auth.userId)
        hit == MatchingRecipes(p[7], p[8])
    IN  IF ~auth.ok THEN Refused("put", req, auth)
        ELSE IF \E i \in hit : ~NotNullOk(UpdatedRow(recipes[i], p))
        THEN /\ resp' = [op |-> "put", req |-> req, userId |-> auth.userId,
                         status |-> 500, body |-> [error |-> "Failed to update recipe"]]
             /\ UNCHANGED <<users, recipes, inflight, uploads, now, accounts, held, created>>
        ELSE IF hit = {}
        THEN /\ resp' = [op |-> "put", req |-> req, userId |-> auth.userId,
                         status |-> 404,
                         body |-> [error |-> "Recipe not found or unauthorized"]]
             /\ UNCHANGED <<users, recipes, inflight, uploads, now, accounts, held, created>>
        ELSE /\ recipes' = [i \in 1..Len(recipes) |->
                               IF i \in hit THEN UpdatedRow(recipes[i], p) ELSE recipes[i]]
             /\ resp' = [op |-> "put", req |-> req, userId |-> auth.userId,
                         status |-> 200, body |-> [message |-> "Recipe updated successfully"]]
             /\ created' = [i \in 1..Len(created) |->
                               IF i \in hit THEN [created[i] EXCEPT !.overwritten = TRUE]
                               ELSE created[i]]
             /\ UNCHANGED <<users, inflight, uploads, now, accounts, held>>

(***************************************************************************)
(* Time passes: Date.now() moves on to a later instant.  Whatever response *)
(* was last seen is then no longer the response to "the request just       *)
(* handled".                                                               *)
(***************************************************************************)
Tick(t) ==
    /\ t > now
    /\ now' = t
    /\ resp' = NoResp
    /\ UNCHANGED <<users, recipes, inflight, uploads, accounts, held, created>>

(***************************************************************************)
(* The inputs the requests are drawn from.                                 *)
(***************************************************************************)
EmailA == Str(<<"a", "@", "x", ".", "c">>)
EmailB == Str(<<"b", "@", "x", ".", "c">>)
EmailBad == Str(<<"a", "@", "x">>)

NameA == Str(<<"A">>)
Empty == Str(<<>>)

PwSecret1 == Str(<<"s", "e", "c", "r", "e", "t", "1">>)
PwHunter == Str(<<"h", "u", "n", "t", "e", "r">>)
PwShort == Str(<<"s", "e", "c", "r", "e">>)

Names == {Empty, NameA}
Emails == {EmailA, EmailB, EmailBad}
Passwords == {PwShort, PwSecret1, PwHunter}
LoginPasswords == {Empty, PwSecret1, PwHunter}
Salts == {"salt1", "salt2"}
Files == {Undefined, <<"file", ".png">>}

\* instants around the ends of the lifetime of a token issued in the first second
Instants ==
    {0, 500, 1000 * TokenLifetime - 500, 1000 * TokenLifetime, 1000 * TokenLifetime + 1000}

RecipeIds == 1..(MaxRecipes + 1)

RecipeBody(t, d, g, s, cat, img) ==
    [title |-> t, description |-> d, ingredients |-> g, instructions |-> s,
     categoryId |-> cat, imageUrl |-> img]

Soup == Str(<<"S", "o">>)
Hot == Str(<<"h">>)
Water == Str(<<"w">>)
Boil == Str(<<"b">>)
Stew == Str(<<"S", "t">>)
Url == Str(<<"u">>)

BodySoup == RecipeBody(Soup, Hot, Water, Boil, Undefined, Undefined)
BodyStew == RecipeBody(Stew, Hot, Water, Boil, Num(1), Url)
BodyEmptyTitle == RecipeBody(Empty, Hot, Water, Boil, Undefined, Undefined)
BodyTwoBad == RecipeBody(Soup, Empty, Undefined, Boil, Num(1), Undefined)
BodyNothing == RecipeBody(Undefined, Undefined, Undefined, Undefined, Undefined, Undefined)
BodyBlank == RecipeBody(Empty, Empty, Empty, Empty, Null, Undefined)
BodyNoTitle == RecipeBody(Undefined, Hot, Water, Boil, Undefined, Url)

CreateBodies == {BodySoup, BodyStew, BodyEmptyTitle, BodyTwoBad, BodyNothing}
UpdateBodies == {BodyStew, BodyBlank, BodyNoTitle}

HeldCredentials == {<<"held", i>> : i \in 1..Len(held)}

(***************************************************************************)
(* The whole service: every handler, every input.                          *)
(***************************************************************************)
Next ==
    \/ \E n \in Names, e \in Emails, p \in Passwords, s \in Salts : SignupRequest(n, e, p, s)
    \/ \E p \in inflight : SignupInsert(p)
    \/ \E e \in Emails, p \in LoginPasswords : Login(e, p)
    \/ \E f \in Files : Upload(f)
    \/ \E c \in Credentials : ListRecipes(c)
    \/ \E c \in Credentials, id \in RecipeIds : GetRecipe(c, id)
    \/ \E c \in Credentials, b \in CreateBodies : CreateRecipe(c, b)
    \/ \E c \in Credentials, id \in RecipeIds, b \in UpdateBodies : UpdateRecipe(c, id, b)
    \/ \E t \in Instants : Tick(t)

Spec == Init /\ [][Next]_vars

(***************************************************************************)
(* The accounts: signup (both halves, so concurrent signups interleave)    *)
(* and login, with every name, email, password and salt.                   *)
(***************************************************************************)
NextAccounts ==
    \/ \E n \in Names, e \in Emails, p \in Passwords, s \in Salts : SignupRequest(n, e, p, s)
    \/ \E p \in inflight : SignupInsert(p)
    \/ \E e \in Emails, p \in LoginPasswords : Login(e, p)

SpecAccounts == Init /\ [][NextAccounts]_vars

(***************************************************************************)
(* The tokens: a user signs up and logs in at any instant and calls every  *)
(* recipe route with the token held, at any instant.                       *)
(***************************************************************************)
NextTokens ==
    \/ SignupRequest(NameA, EmailA, PwSecret1, "salt1")
    \/ \E p \in inflight : SignupInsert(p)
    \/ Login(EmailA, PwSecret1)
    \/ \E c \in HeldCredentials : ListRecipes(c)
    \/ \E c \in HeldCredentials, id \in RecipeIds : GetRecipe(c, id)
    \/ \E c \in HeldCredentials, b \in {BodySoup, BodyStew, BodyEmptyTitle} : CreateRecipe(c, b)
    \/ \E c \in HeldCredentials, id \in RecipeIds : UpdateRecipe(c, id, BodyBlank)
    \/ \E t \in Instants : Tick(t)

SpecTokens == Init /\ [][NextTokens]_vars

(***************************************************************************)
(* The gate: every route is called with every kind of credential (none,    *)
(* empty, forged, held and still valid, held and expired), and the routes  *)
(* outside the gate are called with none.                                  *)
(***************************************************************************)
NextGate ==
    \/ SignupRequest(NameA, EmailA, PwSecret1, "salt1")
    \/ \E p \in inflight : SignupInsert(p)
    \/ Login(EmailA, PwSecret1)
    \/ \E f \in Files : Upload(f)
    \/ \E c \in Credentials : ListRecipes(c)
    \/ \E c \in Credentials, id \in RecipeIds : GetRecipe(c, id)
    \/ \E c \in Credentials, b \in {BodySoup, BodyTwoBad} : CreateRecipe(c, b)
    \/ \E c \in Credentials, id \in RecipeIds, b \in {BodyStew, BodyNoTitle} :
            UpdateRecipe(c, id, b)
    \/ Tick(1000 * TokenLifetime)

SpecGate == Init /\ [][NextGate]_vars

(***************************************************************************)
(* The recipes: the service as it stands once two users have signed up     *)
(* (the state SpecAccounts reaches by signing up a@x.c and then b@x.c);    *)
(* each logs in and calls every recipe route with every body and every id. *)
(***************************************************************************)
SignupOf(email) == [name |-> NameA, email |-> email, password |-> PwSecret1]

TwoUsersSignedUp ==
    /\ users = <<[id |-> 1, name |-> NameA, email |-> EmailA,
                  password |-> BcryptHash(PwSecret1, "salt1")],
                 [id |-> 2, name |-> NameA, email |-> EmailB,
                  password |-> BcryptHash(PwSecret1, "salt1")]>>
    /\ recipes = <<>>
    /\ inflight = {}
    /\ uploads = {}
    /\ now = 0
    /\ resp = [op |-> "signup", req |-> SignupOf(EmailB), status |-> 201,
               body |-> [id |-> 2, name |-> NameA, email |-> EmailB,
                         token |-> JwtSign(2, JwtSecret, 0)]]
    /\ accounts = <<[id |-> 1, email |-> EmailA, password |-> PwSecret1],
                    [id |-> 2, email |-> EmailB, password |-> PwSecret1]>>
    /\ held = <<[token |-> JwtSign(1, JwtSecret, 0), at |-> 0],
                [token |-> JwtSign(2, JwtSecret, 0), at |-> 0]>>
    /\ created = <<>>

NextRecipes ==
    \/ \E e \in {EmailA, EmailB} : Login(e, PwSecret1)
    \/ \E c \in HeldCredentials : ListRecipes(c)
    \/ \E c \in HeldCredentials, id \in RecipeIds : GetRecipe(c, id)
    \/ \E c \in HeldCredentials, b \in CreateBodies : CreateRecipe(c, b)
    \/ \E c \in HeldCredentials, id \in RecipeIds, b \in UpdateBodies : UpdateRecipe(c, id, b)

SpecRecipes == TwoUsersSignedUp /\ [][NextRecipes]_vars

(***************************************************************************)
(* Properties.                                                             *)
(***************************************************************************)
RecipeOps == {"list", "get", "create", "put"}

RecipeIdsIn(table) == {table[i].id : i \in 1..Len(table)}

RequiredFields == {"title", "description", "ingredients", "instructions"}

Missing(v) == v = Undefined \/ v = Null

EmptyOrMissing(v) == Missing(v) \/ v = Str(<<>>)

\* what the store holds for a value sent in a body: itself, or NULL if it was not sent
Stored(v) == IF v = Undefined THEN Null ELSE v

NotFoundBody(op) ==
    IF op = "get" THEN [error |-> "Recipe not found"]
    ELSE [error |-> "Recipe not found or unauthorized"]

----------------------------------------------------------------------------
\* C1: a GET or PUT /recipes/:id that user A issues with a valid token against
\* the id of a recipe another user owns is answered 404 with the body an id
\* that does not exist gets (so with no field of the recipe), and leaves the
\* recipes table as it was.
C1_NoCrossUserAccess ==
    [][(/\ resp'.op \in {"get", "put"}
        /\ resp'.userId # 0
        /\ \E i \in 1..Len(recipes) :
              recipes[i].id = resp'.req.id /\ recipes[i].userId # resp'.userId)
       => (/\ resp'.status = 404
           /\ resp'.body = NotFoundBody(resp'.op)
           /\ recipes' = recipes)]_vars

\* a PUT with a body that would pass, from a user who holds a valid token, on a
\* recipe that belongs to the other user
C1_Witness ==
    /\ resp.op = "put"
    /\ resp.userId # 0
    /\ resp.req.body = BodyStew
    /\ \E i \in 1..Len(recipes) :
          recipes[i].id = resp.req.id /\ recipes[i].userId # resp.userId

----------------------------------------------------------------------------
\* C2: GET /recipes with a valid token for user U answers 200 with exactly the
\* recipes U created so far: each of them once, and no recipe of another user
\* (so the empty list when U created none).
C2_ListExactlyOwn ==
    (resp.op = "list" /\ resp.userId # 0)
    => (/\ resp.status = 200
        /\ RecipeIdsIn(resp.body)
              = {created[i].id : i \in {j \in 1..Len(created) : created[j].by = resp.userId}}
        /\ Cardinality(RecipeIdsIn(resp.body)) = Len(resp.body)
        /\ \A k \in 1..Len(resp.body) : resp.body[k].userId = resp.userId)

\* a list of one recipe while the table holds a recipe of each of two users
C2_Witness ==
    /\ resp.op = "list"
    /\ resp.userId # 0
    /\ Len(resp.body) = 1
    /\ Len(recipes) = 2
    /\ recipes[1].userId # recipes[2].userId

----------------------------------------------------------------------------
ValidNameAndPassword(req) ==
    /\ IsStr(req.name) /\ Len(req.name[2]) > 0
    /\ IsStr(req.password) /\ Len(req.password[2]) >= MinPasswordLen

DuplicateEmail == [error |-> "Email already exists"]

\* C3 as stated: a signup whose email already belongs to a stored user is
\* answered 400 "Email already exists", whatever name and password it carries.
C3_DuplicateAlwaysReported ==
    (/\ resp.op = "signup"
     /\ resp.status \notin {0, 201}
     /\ EmailTaken(resp.req.email))
    => (resp.status = 400 /\ resp.body = DuplicateEmail)

\* C3, amended: a signup whose email already belongs to a stored user is
\* answered 400 and inserts no row; the answer is "Email already exists" when
\* the name is not empty and the password has at least 6 characters, and the
\* list of validation errors otherwise; and no two user rows share an email.
C3_DuplicateRejected ==
    /\ [][(/\ resp'.op = "signup"
           /\ resp'.status # 0
           /\ \E i \in 1..Len(users) : users[i].email = resp'.req.email)
          => (/\ resp'.status = 400
              /\ users' = users
              /\ IF ValidNameAndPassword(resp'.req)
                 THEN resp'.body = DuplicateEmail
                 ELSE /\ resp'.body # DuplicateEmail
                      /\ ErrorFields(resp'.body.errors) \subseteq {"name", "password"}
                      /\ resp'.body.errors # <<>>)]_vars
    /\ [](\A i, j \in 1..Len(users) : users[i].email = users[j].email => i = j)

\* the duplicate is reported to a signup whose password is not the stored user's
C3_Witness ==
    /\ resp.op = "signup"
    /\ resp.status = 400
    /\ resp.body = DuplicateEmail
    /\ \E i \in 1..Len(accounts) :
          /\ accounts[i].email = resp.req.email
          /\ accounts[i].password # resp.req.password

----------------------------------------------------------------------------
\* C4: the ids returned by successful signups are pairwise distinct, and a
\* login with the email and password of a successful signup is answered 200
\* with a token that verifies and is bound to the id that signup returned.
C4_SignupThenLogin ==
    /\ \A i, j \in 1..Len(accounts) : accounts[i].id = accounts[j].id => i = j
    /\ (resp.op = "signup" /\ resp.status = 201)
          => (/\ ValidNameAndPassword(resp.req)
              /\ resp.body.id = accounts[Len(accounts)].id
              /\ resp.body.token[2].id = resp.body.id)
    /\ resp.op = "login"
          => \A i \in 1..Len(accounts) :
                (accounts[i].email = resp.req.email
                    /\ accounts[i].password = resp.req.password)
                => (/\ resp.status = 200
                    /\ resp.body.token[2].id = accounts[i].id
                    /\ JwtVerify(resp.body.token, JwtSecret, now))

\* the second user to sign up logs in
C4_Witness ==
    /\ resp.op = "login"
    /\ resp.status = 200
    /\ Len(accounts) = 2
    /\ resp.body.token[2].id = accounts[2].id
    /\ inflight # {}

----------------------------------------------------------------------------
\* the instant the token behind credential c was issued, and the id it was issued for
IssuedAt(c) == held[c[2]].at
IssuedFor(c) == held[c[2]].token[2].id

\* C5 as stated: a token issued at time T is accepted by a recipe route at
\* every time less than an hour after T, for the user it was issued for, and
\* rejected at every time more than an hour after T.
C5_ValidForTheHour ==
    (resp.op \in RecipeOps /\ resp.req.cred[1] = "held")
    => (/\ now - IssuedAt(resp.req.cred) < 1000 * TokenLifetime
            => resp.userId = IssuedFor(resp.req.cred)
        /\ now - IssuedAt(resp.req.cred) > 1000 * TokenLifetime
            => (resp.userId = 0 /\ resp.status = 400))

\* C5, amended: a token issued at time T is accepted by a recipe route, for
\* the user it was issued for, at every time whose whole second is less than
\* 3600 after the whole second of T, and rejected with 400 "Invalid token."
\* at every other later time: it expires on a whole second, up to one second
\* less than an hour after T.
C5_ValidUntilExpiry ==
    (resp.op \in RecipeOps /\ resp.req.cred[1] = "held")
    => IF Seconds(now) - Seconds(IssuedAt(resp.req.cred)) < TokenLifetime
       THEN resp.userId = IssuedFor(resp.req.cred) /\ resp.userId # 0
       ELSE resp.userId = 0 /\ resp.status = 400 /\ resp.body = InvalidToken

\* a token is accepted in the last second of its life
C5_Witness ==
    /\ resp.op \in RecipeOps
    /\ resp.req.cred[1] = "held"
    /\ resp.userId = IssuedFor(resp.req.cred)
    /\ Seconds(now) - Seconds(IssuedAt(resp.req.cred)) = TokenLifetime - 1

----------------------------------------------------------------------------
\* credential c does not pass the verification (a recipe request changes neither
\* the clock nor the tokens held, so this reads the same before and after it)
FailsVerification(c) ==
    \/ c[1] = "forged"
    \/ c[1] = "held" /\ Seconds(now) >= held[c[2]].token[2].exp

StoreUnchanged == users' = users /\ recipes' = recipes /\ uploads' = uploads

\* C6: a recipe request without a bearer credential is answered 401, and one
\* whose credential fails the signature or the expiry check is answered 400,
\* whatever its body, and the store is left as it was; signup, login and
\* upload are never answered with either of these refusals.
C6_GateBeforeEverything ==
    [][/\ resp'.op \in RecipeOps
          => (/\ resp'.req.cred[1] \in {"none", "empty"}
                    => (/\ resp'.status = 401
                        /\ resp'.body = AccessDenied
                        /\ StoreUnchanged)
              /\ FailsVerification(resp'.req.cred)
                    => (/\ resp'.status = 400
                        /\ resp'.body = InvalidToken
                        /\ StoreUnchanged))
       /\ (resp'.op \in {"signup", "login", "upload"} /\ resp'.status # 0)
          => resp'.body \notin {AccessDenied, InvalidToken}]_vars

\* a POST /recipes with an expired token and a body that fails validation is
\* answered by the gate
C6_Witness ==
    /\ resp.op = "create"
    /\ resp.req.cred[1] = "held"
    /\ resp.status = 400
    /\ resp.body = InvalidToken
    /\ RecipeErrors(resp.req.body) # <<>>

----------------------------------------------------------------------------
\* C7: an authenticated POST /recipes with a required field empty or missing
\* is answered 400 with one error per such field and inserts nothing; with
\* all four non-empty it is answered 201 and appends exactly one row, owned
\* by the caller, under the id it returns.
C7_CreateValidation ==
    [][(resp'.op = "create" /\ resp'.userId # 0)
       => LET b == resp'.req.body
              bad == {f \in RequiredFields : EmptyOrMissing(b[f])}
          IN  IF bad # {}
              THEN /\ resp'.status = 400
                   /\ ErrorFields(resp'.body.errors) = bad
                   /\ Len(resp'.body.errors) = Cardinality(bad)
                   /\ recipes' = recipes
              ELSE /\ resp'.status = 201
                   /\ Len(recipes') = Len(recipes) + 1
                   /\ SubSeq(recipes', 1, Len(recipes)) = recipes
                   /\ recipes'[Len(recipes')].userId = resp'.userId
                   /\ recipes'[Len(recipes')].id = resp'.body.id
                   /\ resp'.body.id \notin RecipeIdsIn(recipes)]_vars

\* a create with two violations is answered with both
C7_Witness ==
    /\ resp.op = "create"
    /\ resp.userId # 0
    /\ resp.status = 400
    /\ ErrorFields(resp.body.errors) = {"description", "ingredients"}

----------------------------------------------------------------------------
\* C8: a GET /recipes/:id by user U of a recipe U created, and did not update
\* since, returns the id the create returned, the values the create was given
\* for title, description, ingredients, instructions, categoryId and imageUrl
\* (null for an optional one that was not given), and the second of creation.
C8_CreateGetRoundTrip ==
    (resp.op = "get" /\ resp.status = 200)
    => \E i \in 1..Len(created) :
          /\ created[i].id = resp.req.id
          /\ created[i].by = resp.userId
          /\ resp.body.id = created[i].id
          /\ resp.body.userId = created[i].by
          /\ ~created[i].overwritten
                => (/\ resp.body.title = created[i].body.title
                    /\ resp.body.description = created[i].body.description
                    /\ resp.body.ingredients = created[i].body.ingredients
                    /\ resp.body.instructions = created[i].body.instructions
                    /\ resp.body.categoryId = Stored(created[i].body.categoryId)
                    /\ resp.body.imageUrl = Stored(created[i].body.imageUrl)
                    /\ resp.body.createdAt = Seconds(created[i].at))

\* a recipe created with a category and an image, after the first second, is fetched
C8_Witness ==
    /\ resp.op = "get"
    /\ resp.status = 200
    /\ resp.body.categoryId = Num(1)
    /\ resp.body.imageUrl = Url
    /\ resp.body.createdAt > 0
    /\ \E i \in 1..Len(created) : created[i].id = resp.req.id /\ ~created[i].overwritten

----------------------------------------------------------------------------
\* C9: an authenticated PUT /recipes/:id with an id no stored recipe has is
\* answered 404 "Recipe not found or unauthorized" and leaves the recipes
\* table as it was.
C9_UpdateUnknownId ==
    [][(/\ resp'.op = "put"
        /\ resp'.userId # 0
        /\ resp'.req.id \notin RecipeIdsIn(recipes))
       => (/\ resp'.status = 404
           /\ resp'.body = [error |-> "Recipe not found or unauthorized"]
           /\ recipes' = recipes)]_vars

\* such a PUT from a user who owns a recipe
C9_Witness ==
    /\ resp.op = "put"
    /\ resp.userId # 0
    /\ resp.req.id \notin RecipeIdsIn(recipes)
    /\ \E i \in 1..Len(recipes) : recipes[i].userId = resp.userId

----------------------------------------------------------------------------
\* the PUT just answered came from the owner of the recipe it names
OwnerPut(r) ==
    /\ r.op = "put"
    /\ r.userId # 0
    /\ \E i \in 1..Len(recipes) : recipes[i].id = r.req.id /\ recipes[i].userId = r.userId

\* C10 as stated: a PUT by the owner of an existing recipe succeeds with 200
\* whatever the body.
C10_AnyBodyAccepted == OwnerPut(resp) => resp.status = 200

\* C10, amended: a PUT by the owner of an existing recipe whose body holds the
\* four required fields (empty or not) is answered 200 with the confirmation
\* and sets the six mutable fields of that row to the body's values (NULL for
\* an optional one not sent); a body that lacks one of the four is answered
\* 500 and changes nothing.  No step removes a row or changes the id, the
\* owner or the creation time of one.
C10_OwnerUpdate ==
    [][/\ (resp'.op = "put" /\ resp'.userId # 0)
          => \A i \in 1..Len(recipes) :
                (recipes[i].id = resp'.req.id /\ recipes[i].userId = resp'.userId)
                => LET b == resp'.req.body
                   IN  IF \E f \in RequiredFields : Missing(b[f])
                       THEN /\ resp'.status = 500
                            /\ recipes' = recipes
                       ELSE /\ resp'.status = 200
                            /\ resp'.body = [message |-> "Recipe updated successfully"]
                            /\ Len(recipes') = Len(recipes)
                            /\ \A j \in 1..Len(recipes) : j # i => recipes'[j] = recipes[j]
                            /\ recipes'[i].title = b.title
                            /\ recipes'[i].description = b.description
                            /\ recipes'[i].ingredients = b.ingredients
                            /\ recipes'[i].instructions = b.instructions
                            /\ recipes'[i].categoryId = Stored(b.categoryId)
                            /\ recipes'[i].imageUrl = Stored(b.imageUrl)
       /\ Len(recipes') >= Len(recipes)
       /\ \A i \in 1..Len(recipes) :
             /\ recipes'[i].id = recipes[i].id
             /\ recipes'[i].userId = recipes[i].userId
             /\ recipes'[i].createdAt = recipes[i].createdAt]_vars

\* the owner overwrites a recipe with empty strings
C10_Witness ==
    /\ OwnerPut(resp)
    /\ resp.status = 200
    /\ resp.req.body = BodyBlank
    /\ \E i \in 1..Len(recipes) : recipes[i].id = resp.req.id /\ recipes[i].title = Empty

====
